---- MODULE Spec2Model ----
(***************************************************************************)
(* A model of Tools/merge_items.py: the name-based reconciliation of the   *)
(* RaidTheory item catalog with the local items.json.                      *)
(*                                                                         *)
(* Python strings are sequences of one-character strings, so that          *)
(* lower(), the [^a-z0-9] filter, title() and code-point comparison are    *)
(* computed and not assumed.  Python dicts are functions whose DOMAIN is   *)
(* the set of keys present (d.get(k, default) is Get(d, k, default)); a    *)
(* dict whose iteration order matters is a sequence of <<key, value>>      *)
(* pairs in insertion order.  None is the empty tuple and a present value  *)
(* v is <<v>>.                                                             *)
(***************************************************************************)
EXTENDS Integers, Sequences, FiniteSets, TLC

VARIABLES rt_items, existing_items, id_to_name_map, existing_by_name,
          merged_items, stats, pc, idx, call, ret

vars == <<rt_items, existing_items, id_to_name_map, existing_by_name,
          merged_items, stats, pc, idx, call, ret>>

-----------------------------------------------------------------------------
(* Characters and strings *)

LowerLetters == <<"a","b","c","d","e","f","g","h","i","j","k","l","m",
                  "n","o","p","q","r","s","t","u","v","w","x","y","z">>

UpperLetters == <<"A","B","C","D","E","F","G","H","I","J","K","L","M",
                  "N","O","P","Q","R","S","T","U","V","W","X","Y","Z">>

DigitChars == <<"0","1","2","3","4","5","6","7","8","9">>

Range(s) == {s[k] : k \in DOMAIN s}

IndexOf(s, c) == CHOOSE k \in DOMAIN s : s[k] = c

IsLower(c) == c \in Range(LowerLetters)

IsUpper(c) == c \in Range(UpperLetters)

IsDigit(c) == c \in Range(DigitChars)

IsLetter(c) == IsLower(c) \/ IsUpper(c)

\* The ASCII code point of a character of the model's alphabet.
Ord(c) ==
    CASE IsUpper(c) -> 64 + IndexOf(UpperLetters, c)
      [] IsLower(c) -> 96 + IndexOf(LowerLetters, c)
      [] IsDigit(c) -> 47 + IndexOf(DigitChars, c)
      [] c = " " -> 32
      [] c = "!" -> 33
      [] c = "?" -> 63
      [] c = "_" -> 95

LowerChar(c) == IF IsUpper(c) THEN LowerLetters[IndexOf(UpperLetters, c)] ELSE c

UpperChar(c) == IF IsLower(c) THEN UpperLetters[IndexOf(LowerLetters, c)] ELSE c

\* str.lower()
Lower(s) == [k \in DOMAIN s |-> LowerChar(s[k])]

\* str.title(): a letter that follows a letter is lower-cased, any other
\* letter is upper-cased, and every other character is kept.
Title(s) ==
    [k \in DOMAIN s |->
        IF ~IsLetter(s[k]) THEN s[k]
        ELSE IF k > 1 /\ IsLetter(s[k - 1]) THEN LowerChar(s[k])
        ELSE UpperChar(s[k])]

\* str.replace("_", " ")
ReplaceUnderscore(s) == [k \in DOMAIN s |-> IF s[k] = "_" THEN " " ELSE s[k]]

\* Python's < on str: lexicographic by code point, a proper prefix first.
RECURSIVE StrLess(_, _)
StrLess(a, b) ==
    IF b = <<>> THEN FALSE
    ELSE IF a = <<>> THEN TRUE
    ELSE IF Ord(Head(a)) # Ord(Head(b)) THEN Ord(Head(a)) < Ord(Head(b))
    ELSE StrLess(Tail(a), Tail(b))

\* dict.get(k, d)
Get(d, k, default) == IF k \in DOMAIN d THEN d[k] ELSE default

None == <<>>

Some(v) == <<v>>

-----------------------------------------------------------------------------
(* normalize_name *)

normalize_name(name) ==
    IF name = <<>> THEN <<>>
    ELSE SelectSeq(Lower(name), LAMBDA c : IsLower(c) \/ IsDigit(c))

-----------------------------------------------------------------------------
(* levenshtein_distance *)

Min3(a, b, c) == IF a <= b /\ a <= c THEN a ELSE IF b <= c THEN b ELSE c

\* A faulty variant of substitutions: the cost of a substitution does not look at
\* the characters.
substitutions_always(previous_row, j, c1, c2) == previous_row[j] + 1

\* previous_row[j] + (c1 != c2), j being the 1-based position of c2 in s2.
substitutions(previous_row, j, c1, c2) ==
    previous_row[j] + (IF c1 # c2 THEN 1 ELSE 0)

\* The inner loop over s2: current_row starts as [i + 1] and gets one cell
\* per character of s2.
RECURSIVE current_row_from(_, _, _, _)
current_row_from(current_row, previous_row, c1, s2) ==
    IF Len(current_row) = Len(s2) + 1 THEN current_row
    ELSE LET j == Len(current_row)
             insertions == previous_row[j + 1] + 1
             deletions == current_row[j] + 1
             subst == substitutions(previous_row, j, c1, s2[j])
         IN  current_row_from(Append(current_row, Min3(insertions, deletions, subst)),
                              previous_row, c1, s2)

\* The outer loop over s1 from its i-th character (1-based) on.  A row is
\* never empty; the test on its length makes TLC compute the row before the
\* next one is started, as the code does.
RECURSIVE previous_row_after(_, _, _, _)
previous_row_after(previous_row, s1, i, s2) ==
    IF i > Len(s1) THEN previous_row
    ELSE LET current_row == current_row_from(<<i>>, previous_row, s1[i], s2)
         IN  IF Len(current_row) = 0 THEN current_row
             ELSE previous_row_after(current_row, s1, i + 1, s2)

levenshtein_distance(s1, s2) ==
    LET a == IF Len(s1) < Len(s2) THEN s2 ELSE s1
        b == IF Len(s1) < Len(s2) THEN s1 ELSE s2
    IN  IF Len(b) = 0 THEN Len(a)
        ELSE LET last == previous_row_after([k \in 1..(Len(b) + 1) |-> k - 1], a, 1, b)
             IN  last[Len(last)]

-----------------------------------------------------------------------------
(* Ordered dicts: a sequence of <<key, value>> pairs in insertion order *)

DictKeys(d) == {d[k][1] : k \in DOMAIN d}

DictHas(d, key) == \E k \in DOMAIN d : d[k][1] = key

DictGet(d, key) == d[CHOOSE k \in DOMAIN d : d[k][1] = key][2]

\* d[key] = value: a key already present keeps its place and gets the new
\* value, a new key goes last.
DictSet(d, key, value) ==
    IF DictHas(d, key)
    THEN [k \in DOMAIN d |-> IF d[k][1] = key THEN <<key, value>> ELSE d[k]]
    ELSE Append(d, <<key, value>>)

-----------------------------------------------------------------------------
(* CATEGORY_MAP, id_to_display_name, auto_recommend *)

CATEGORY_MAP ==
    [t \in {"Basic Material", "Refined Material", "Consumable", "Quick Use",
            "Tool", "Weapon", "Attachment", "Key", "Quest Item", "Armor",
            "Armor Plate", "Helmet Plate", "Blueprint", "Color", "Valuable",
            "Ammo", "Grenade", "Trap", "Food", "Drink"} |->
        CASE t \in {"Basic Material", "Tool"} -> "Material"
          [] t = "Refined Material" -> "Component"
          [] t \in {"Consumable", "Quick Use", "Grenade", "Trap", "Food", "Drink"}
               -> "Consumable"
          [] t = "Weapon" -> "Weapon"
          [] t = "Attachment" -> "Attachment"
          [] t \in {"Key", "Quest Item"} -> "Quest"
          [] t \in {"Armor", "Armor Plate", "Helmet Plate"} -> "Armor"
          [] t = "Blueprint" -> "Blueprint"
          [] t = "Color" -> "Cosmetic"
          [] t = "Valuable" -> "Valuable"
          [] t = "Ammo" -> "Ammo"]

\* id_to_name_map is a function from the ids that have a name to the name.
id_to_display_name(item_id, name_map) ==
    IF item_id \in DOMAIN name_map THEN name_map[item_id]
    ELSE Title(ReplaceUnderscore(item_id))

\* name_obj.get("en", "") if isinstance(name_obj, dict) else str(name_obj).
\* A name object is tagged: [dict |-> d] for a mapping from language code
\* to string, [str |-> s] for a bare string.
english_name(rt_item) ==
    LET name_obj == Get(rt_item, "name", [dict |-> <<>>])
    IN  IF "dict" \in DOMAIN name_obj THEN Get(name_obj.dict, "en", <<>>)
        ELSE name_obj.str

auto_recommend(item) ==
    LET item_type == Get(item, "type", "")
        rarity == Get(item, "rarity", "Common")
        recycles_into == Get(item, "recyclesInto", <<>>)
    IN  IF item_type \in {"Key", "Quest Item"} THEN "Keep"
        ELSE IF item_type = "Valuable" THEN "Sell"
        ELSE IF rarity \in {"Rare", "Epic", "Legendary"} THEN "Keep"
        ELSE IF item_type \in {"Quick Use", "Consumable"} THEN "Keep"
        ELSE IF recycles_into # <<>> /\ Len(recycles_into) > 0 THEN "Recycle"
        ELSE IF item_type \in {"Weapon", "Armor", "Armor Plate", "Helmet Plate",
                               "Attachment"} THEN "Keep"
        ELSE "Either"

-----------------------------------------------------------------------------
(* transform_item *)

\* A faulty variant of positive_count: a zero count is kept.
positive_count_or_zero(count) == count >= 0

\* if count > 0:
positive_count(count) == count > 0

\* The loop over recycles_into.items() from its k-th pair on.
RECURSIVE recycle_outputs_from(_, _, _, _)
recycle_outputs_from(recycle_outputs, recycles_into, k, name_map) ==
    IF k > Len(recycles_into) THEN recycle_outputs
    ELSE LET item_id == recycles_into[k][1]
             count == recycles_into[k][2]
         IN  recycle_outputs_from(
                 IF positive_count(count)
                 THEN DictSet(recycle_outputs,
                              id_to_display_name(item_id, name_map), count)
                 ELSE recycle_outputs,
                 recycles_into, k + 1, name_map)

\* None, or Some(mapping) with the mapping never empty.
recycle_outputs_of(rt_item, name_map) ==
    LET recycles_into == Get(rt_item, "recyclesInto", <<>>)
    IN  IF recycles_into # <<>> /\ Len(recycles_into) > 0
        THEN LET built == recycle_outputs_from(<<>>, recycles_into, 1, name_map)
             IN  IF built = <<>> THEN None ELSE Some(built)
        ELSE None

\* if existing_item: None and the empty dict are false.
Truthy(opt) == opt # None /\ DOMAIN opt[1] # {}

\* A faulty variant of curator_fields: the recommendation of a matched record is
\* generated again from the raw record.
curator_fields_regenerated(rt_item, existing_item) ==
    IF Truthy(existing_item)
    THEN LET e == existing_item[1]
         IN  [projectUses |-> Get(e, "projectUses", <<>>),
              workshopUses |-> Get(e, "workshopUses", <<>>),
              keepForQuests |-> Get(e, "keepForQuests", FALSE),
              questUses |-> Get(e, "questUses", <<>>),
              recommendation |-> auto_recommend(rt_item)]
    ELSE [projectUses |-> <<>>, workshopUses |-> <<>>, keepForQuests |-> FALSE,
          questUses |-> <<>>, recommendation |-> auto_recommend(rt_item)]

\* "Preserve or generate custom fields"
curator_fields(rt_item, existing_item) ==
    IF Truthy(existing_item)
    THEN LET e == existing_item[1]
         IN  [projectUses |-> Get(e, "projectUses", <<>>),
              workshopUses |-> Get(e, "workshopUses", <<>>),
              keepForQuests |-> Get(e, "keepForQuests", FALSE),
              questUses |-> Get(e, "questUses", <<>>),
              recommendation |-> Get(e, "recommendation", "Either")]
    ELSE [projectUses |-> <<>>, workshopUses |-> <<>>, keepForQuests |-> FALSE,
          questUses |-> <<>>, recommendation |-> auto_recommend(rt_item)]

\* The fields of the output record that no checked property reads and that
\* are copied from the raw record alone (description, value, weight,
\* stackSize, foundIn, imageUrl) are left out.
transform_item(rt_item, name_map, existing_item) ==
    LET rt_type == Get(rt_item, "type", "Material")
        base == [name |-> english_name(rt_item),
                 category |-> Get(CATEGORY_MAP, rt_type, "Material"),
                 rarity |-> Get(rt_item, "rarity", "Common"),
                 recycleValuePercent |->
                     IF Truthy(existing_item)
                        /\ Get(existing_item[1], "recycleValuePercent", None) # None
                     THEN existing_item[1].recycleValuePercent
                     ELSE None,
                 recycleOutputs |-> recycle_outputs_of(rt_item, name_map)]
    IN  base @@ curator_fields(rt_item, existing_item)

-----------------------------------------------------------------------------
(* find_existing_item *)

\* A faulty variant of within_max_distance: the floor of three edits is missing.
within_max_distance_nofloor(distance, normalized) ==
    5 * distance <= Len(normalized)

\* distance <= max(3, len(normalized) * 0.2).  distance and the length are
\* integers, and the float product n * 0.2 is never below k when n = 5 * k
\* (0.2 is rounded up and k is a float), so the comparison is
\* distance <= 3 or 5 * distance <= len(normalized).
within_max_distance(distance, normalized) ==
    distance <= 3 \/ 5 * distance <= Len(normalized)

\* The fuzzy loop over existing_items_by_name.items() from its k-th pair
\* on.  best is [match, distance]; distance None is float("inf").
RECURSIVE best_match_from(_, _, _, _)
best_match_from(best, normalized, by_name, k) ==
    IF k > Len(by_name) THEN best
    ELSE LET distance == levenshtein_distance(normalized, by_name[k][1])
             better == (best.distance = None \/ distance < best.distance[1])
                       /\ within_max_distance(distance, normalized)
         IN  best_match_from(
                 IF better THEN [match |-> Some(by_name[k][2]),
                                 distance |-> Some(distance)]
                 ELSE best,
                 normalized, by_name, k + 1)

\* A faulty variant of find_existing_item: the first candidate within the threshold
\* is returned, with no exact lookup before the loop.
find_existing_item_first(name, by_name) ==
    LET normalized == normalize_name(name)
        ok == {k \in DOMAIN by_name :
                 within_max_distance(
                     levenshtein_distance(normalized, by_name[k][1]), normalized)}
    IN  IF ok = {} THEN None
        ELSE Some(by_name[CHOOSE k \in ok : \A m \in ok : k <= m][2])

\* None, or Some(item).
find_existing_item(name, by_name) ==
    LET normalized == normalize_name(name)
    IN  IF DictHas(by_name, normalized) THEN Some(DictGet(by_name, normalized))
        ELSE best_match_from([match |-> None, distance |-> None],
                             normalized, by_name, 1).match

-----------------------------------------------------------------------------
(* main: the phases of the merge run *)

\* Phase 2, the loop over rt_items.items() from its k-th pair on:
\* id_to_name_map[item_id] = name for every record with a non-empty name.
RECURSIVE build_id_to_name_map(_, _, _)
build_id_to_name_map(name_map, items, k) ==
    IF k > Len(items) THEN name_map
    ELSE LET item_id == items[k][1]
             name == english_name(items[k][2])
         IN  build_id_to_name_map(
                 IF name # <<>>
                 THEN [d \in DOMAIN name_map \cup {item_id} |->
                          IF d = item_id THEN name ELSE name_map[d]]
                 ELSE name_map,
                 items, k + 1)

\* Phase 3, the loop over existing_items from its k-th item on:
\* existing_by_name[norm_name] = item for every item with a non-empty key.
RECURSIVE build_existing_by_name(_, _, _)
build_existing_by_name(by_name, items, k) ==
    IF k > Len(items) THEN by_name
    ELSE LET norm_name == normalize_name(Get(items[k], "name", <<>>))
         IN  build_existing_by_name(
                 IF norm_name # <<>> THEN DictSet(by_name, norm_name, items[k])
                 ELSE by_name,
                 items, k + 1)

\* A faulty variant of sort_key: the names are compared as they are.
sort_key_raw(item) == item.name

\* key=lambda x: x["name"].lower()
sort_key(item) == Lower(item.name)

\* list.sort is stable: an item goes after every item whose key is not
\* greater than its own.
RECURSIVE insert_sorted(_, _)
insert_sorted(sorted, item) ==
    IF sorted = <<>> THEN <<item>>
    ELSE IF StrLess(sort_key(item), sort_key(Head(sorted)))
         THEN <<item>> \o sorted
         ELSE <<Head(sorted)>> \o insert_sorted(Tail(sorted), item)

RECURSIVE sort_items(_, _, _)
sort_items(sorted, items, k) ==
    IF k > Len(items) THEN sorted
    ELSE sort_items(insert_sorted(sorted, items[k]), items, k + 1)

Phase2 ==
    /\ pc = "phase2"
    /\ id_to_name_map' = build_id_to_name_map(<<>>, rt_items, 1)
    /\ pc' = "phase3"
    /\ UNCHANGED <<rt_items, existing_items, existing_by_name, merged_items,
                   stats, idx, call, ret>>

Phase3 ==
    /\ pc = "phase3"
    /\ existing_by_name' = build_existing_by_name(<<>>, existing_items, 1)
    /\ merged_items' = <<>>
    /\ stats' = [updated |-> 0, added |-> 0, skipped |-> 0]
    /\ idx' = 1
    /\ pc' = "phase4"
    /\ UNCHANGED <<rt_items, existing_items, id_to_name_map, call, ret>>

\* A faulty variant of merge_record: a record without a name is counted as skipped
\* and merged all the same (the continue is missing).
merge_record_no_continue(rt_item, by_name, name_map, merged, st) ==
    LET name == english_name(rt_item)
        existing == find_existing_item(name, by_name)
        st1 == IF name = <<>> THEN [st EXCEPT !.skipped = @ + 1] ELSE st
    IN  [merged |-> Append(merged, transform_item(rt_item, name_map, existing)),
         stats |-> IF Truthy(existing)
                   THEN [st1 EXCEPT !.updated = @ + 1]
                   ELSE [st1 EXCEPT !.added = @ + 1]]

\* A faulty variant of merge_record: every record counts as added.
merge_record_all_added(rt_item, by_name, name_map, merged, st) ==
    LET name == english_name(rt_item)
        existing == find_existing_item(name, by_name)
    IN  IF name = <<>>
        THEN [merged |-> merged, stats |-> [st EXCEPT !.skipped = @ + 1]]
        ELSE [merged |-> Append(merged, transform_item(rt_item, name_map, existing)),
              stats |-> [st EXCEPT !.added = @ + 1,
                                   !.updated = IF Truthy(existing) THEN @ + 1 ELSE @]]

\* The body of the Phase 4 loop for one raw record: the new merged_items
\* and stats.
merge_record(rt_item, by_name, name_map, merged, st) ==
    LET name == english_name(rt_item)
        existing == find_existing_item(name, by_name)
    IN  IF name = <<>>
        THEN [merged |-> merged, stats |-> [st EXCEPT !.skipped = @ + 1]]
        ELSE [merged |-> Append(merged, transform_item(rt_item, name_map, existing)),
              stats |-> IF Truthy(existing)
                        THEN [st EXCEPT !.updated = @ + 1]
                        ELSE [st EXCEPT !.added = @ + 1]]

\* One iteration of "for item_id, rt_item in rt_items.items()".  call and
\* ret keep the last call of find_existing_item the loop made and what it
\* returned.
MergeStep ==
    /\ pc = "phase4"
    /\ idx <= Len(rt_items)
    /\ LET rt_item == rt_items[idx][2]
           name == english_name(rt_item)
           r == merge_record(rt_item, existing_by_name, id_to_name_map,
                             merged_items, stats)
       IN  /\ merged_items' = r.merged
           /\ stats' = r.stats
           /\ call' = IF name = <<>> THEN call
                      ELSE [fn |-> "find_existing_item", name |-> name,
                            existing_by_name |-> existing_by_name]
           /\ ret' = IF name = <<>> THEN ret
                     ELSE Some(find_existing_item(name, existing_by_name))
    /\ idx' = idx + 1
    /\ UNCHANGED <<rt_items, existing_items, id_to_name_map, existing_by_name, pc>>

\* The loop is over: merged_items.sort(...), and the report that follows
\* reads the counters and len(merged_items).
SortAndReport ==
    /\ pc = "phase4"
    /\ idx > Len(rt_items)
    /\ merged_items' = sort_items(<<>>, merged_items, 1)
    /\ pc' = "done"
    /\ UNCHANGED <<rt_items, existing_items, id_to_name_map, existing_by_name,
                   stats, idx, call, ret>>

-----------------------------------------------------------------------------
(* The inputs of the runs *)

MaxRaw == 3

MaxExisting == 2

MaxStrLen == 3

MaxIndex == 2

MaxRecycle == 2

MaxCount == 2

\* The sequences of at most n distinct elements of S.
SeqsNoRep(S, n) ==
    {s \in UNION {[1..k -> S] : k \in 0..n} :
        \A a, b \in DOMAIN s : a # b => s[a] # s[b]}

\* A record with the field k when the optional value opt is present.
OptField(k, opt) == IF opt = None THEN <<>> ELSE k :> opt[1]

\* The raw records of the merge runs, each <<item_id, rt_item>>: a name
\* that sorts last, two names equal up to case, a name object with no "en"
\* entry, a bare-string name of punctuation only, and a record with no name.
RawUniverse ==
    { <<<<"z","e","d","_","c","o","r","e">>,
        [name |-> [dict |-> [en |-> <<"Z","e","d"," ","C","o","r","e">>]],
         type |-> "Valuable", rarity |-> "Common"]>>,
      <<<<"a","b">>,
        [name |-> [dict |-> [en |-> <<"a","b">>]], type |-> "Basic Material",
         recyclesInto |-> << <<<<"z","e","d","_","c","o","r","e">>, 2>> >>]>>,
      <<<<"a","b","2">>,
        [name |-> [dict |-> [en |-> <<"A","b">>]], type |-> "Weapon", rarity |-> "Rare"]>>,
      <<<<"x">>, [name |-> [dict |-> [de |-> <<"A","x","t">>]], type |-> "Tool"]>>,
      <<<<"q">>, [name |-> [str |-> <<"?","?">>], type |-> "Mystery"]>>,
      <<<<"n">>, [type |-> "Key", rarity |-> "Epic"]>> }

\* The records of items.json: a curated record, a record with fields
\* missing and a key of three characters, a record no raw record is near,
\* and a second record with the key of the first.
ExistingUniverse ==
    { [name |-> <<"Z","e","d"," ","C","o","r","e">>,
       projectUses |-> <<"Workshop A">>, workshopUses |-> <<>>,
       keepForQuests |-> TRUE, questUses |-> <<"Q1">>, recommendation |-> "Keep",
       recycleValuePercent |-> Some(37)],
      [name |-> <<"a","b","c">>, projectUses |-> <<>>, recommendation |-> "Sell",
       recycleValuePercent |-> None],
      [name |-> <<"M","a","n","g","o">>, projectUses |-> <<>>, workshopUses |-> <<"Bench">>,
       keepForQuests |-> FALSE, questUses |-> <<>>, recommendation |-> "Recycle",
       recycleValuePercent |-> None],
      [name |-> <<"Z","E","D","-","C","O","R","E">>,
       projectUses |-> <<>>, workshopUses |-> <<>>,
       keepForQuests |-> FALSE, questUses |-> <<>>, recommendation |-> "Either",
       recycleValuePercent |-> None] }

NoCall == [fn |-> "main"]

Init ==
    /\ rt_items \in SeqsNoRep(RawUniverse, MaxRaw)
    /\ existing_items \in SeqsNoRep(ExistingUniverse, MaxExisting)
    /\ id_to_name_map = <<>>
    /\ existing_by_name = <<>>
    /\ merged_items = <<>>
    /\ stats = [updated |-> 0, added |-> 0, skipped |-> 0]
    /\ pc = "phase2"
    /\ idx = 1
    /\ call = NoCall
    /\ ret = None

Next == Phase2 \/ Phase3 \/ MergeStep \/ SortAndReport

Spec == Init /\ [][Next]_vars

-----------------------------------------------------------------------------
(* Calls of the pure functions on inputs drawn from bounded sets *)

MainIdle ==
    /\ rt_items = <<>>
    /\ existing_items = <<>>
    /\ id_to_name_map = <<>>
    /\ existing_by_name = <<>>
    /\ merged_items = <<>>
    /\ stats = [updated |-> 0, added |-> 0, skipped |-> 0]
    /\ idx = 1
    /\ ret = None

MainUnchanged ==
    UNCHANGED <<rt_items, existing_items, id_to_name_map, existing_by_name,
                merged_items, stats, idx, call>>

LevAlphabet == {"a", "b", "c"}

LevStrings == UNION {[1..k -> LevAlphabet] : k \in 0..MaxStrLen}

InitLev ==
    /\ MainIdle
    /\ pc = "call"
    /\ call \in [fn : {"levenshtein_distance"}, s1 : LevStrings, s2 : LevStrings]

CallLevenshtein ==
    /\ pc = "call"
    /\ call.fn = "levenshtein_distance"
    /\ ret' = Some(levenshtein_distance(call.s1, call.s2))
    /\ pc' = "return"
    /\ MainUnchanged

SpecLev == InitLev /\ [][CallLevenshtein]_vars

\* The names looked up: an exact key, a key one edit from two index keys,
\* the empty name, a name of punctuation only, a 20-character key (threshold
\* 4), a 19-character key (threshold 3.8) and a name near nothing.
MatchNames ==
    { <<"I","r","o","n"," ","P","l","a","t","e">>,
      <<"i","r","o","n","p","l","a","t">>,
      <<>>,
      <<"?","!">>,
      <<"a","b","c","d","e","f","g","h","i","j","k","l","m","n","o","p","q","r","s","t">>,
      <<"a","b","c","d","e","f","g","h","i","j","k","l","m","n","o","p","q","r","s">>,
      <<"Z","z","z","z","z","z","z","z">> }

\* The names of the indexed records: the exact key, a key one edit longer,
\* a key three edits shorter, a second record with the exact key, a key one
\* edit shorter, two keys of 16 characters four edits from the 20-character
\* name, a key of 15 characters, and a key of three characters.
MatchExistingNames ==
    { <<"I","r","o","n"," ","P","l","a","t","e">>,
      <<"I","r","o","n"," ","P","l","a","t","e"," ","X">>,
      <<"I","r","o","n"," ","P","l">>,
      <<"I","R","O","N","-","P","L","A","T","E">>,
      <<"i","r","o","n","p","l","a">>,
      <<"a","b","c","d","e","f","g","h","i","j","k","l","m","n","o","p">>,
      <<"e","f","g","h","i","j","k","l","m","n","o","p","q","r","s","t">>,
      <<"a","b","c","d","e","f","g","h","i","j","k","l","m","n","o">>,
      <<"A","x","e">> }

MatchExisting ==
    {[name |-> n, recommendation |-> "Keep"] : n \in MatchExistingNames}

InitMatch ==
    /\ MainIdle
    /\ pc = "call"
    /\ call \in [fn : {"find_existing_item"}, name : MatchNames,
                 existing_by_name :
                     {build_existing_by_name(<<>>, items, 1) :
                         items \in SeqsNoRep(MatchExisting, MaxIndex)}]

CallFindExisting ==
    /\ pc = "call"
    /\ call.fn = "find_existing_item"
    /\ ret' = Some(find_existing_item(call.name, call.existing_by_name))
    /\ pc' = "return"
    /\ MainUnchanged

SpecMatch == InitMatch /\ [][CallFindExisting]_vars

\* The catalog the reference table of the transform calls is built from:
\* item x is named "A B", which is also what the unnamed id a_b falls back
\* to, and item y is named "Yam".
TransformCatalog ==
    << <<<<"x">>, [name |-> [dict |-> [en |-> <<"A"," ","B">>]]]>>,
       <<<<"y">>, [name |-> [dict |-> [en |-> <<"Y","a","m">>]]]>>,
       <<<<"a","_","b">>, [type |-> "Tool"]>> >>

RecycleIds == {<<"x">>, <<"y">>, <<"a","_","b">>}

\* The recyclesInto maps: at most MaxRecycle ids, each with a count in
\* 0..MaxCount.
RecycleMaps ==
    {m \in UNION {[1..k -> RecycleIds \X (0..MaxCount)] : k \in 0..MaxRecycle} :
        \A a, b \in DOMAIN m : a # b => m[a][1] # m[b][1]}

TransformTypes ==
    {"Key", "Quest Item", "Valuable", "Quick Use", "Consumable", "Weapon",
     "Armor", "Armor Plate", "Helmet Plate", "Attachment", "Basic Material",
     "Mystery"}

TransformRarities == {"Common", "Rare", "Epic", "Legendary"}

TransformRaw ==
    {[name |-> [dict |-> [en |-> <<"Z","e","d">>]]]
        @@ OptField("type", t) @@ OptField("rarity", r)
        @@ OptField("recyclesInto", m) :
        t \in {None} \cup {Some(x) : x \in TransformTypes},
        r \in {None} \cup {Some(x) : x \in TransformRarities},
        m \in {None} \cup {Some(x) : x \in RecycleMaps}}

\* The existing records of the transform calls: those of the merge runs and
\* one that has no recommendation.
TransformExisting ==
    ExistingUniverse
        \cup {[name |-> <<"O","l","d">>, projectUses |-> <<"Workshop B">>,
                keepForQuests |-> TRUE]}

InitTransform ==
    /\ MainIdle
    /\ pc = "call"
    /\ call \in [fn : {"transform_item"}, rt_item : TransformRaw,
                 id_to_name_map : {build_id_to_name_map(<<>>, TransformCatalog, 1)},
                 existing_item : {None} \cup {Some(e) : e \in TransformExisting}]

CallTransform ==
    /\ pc = "call"
    /\ call.fn = "transform_item"
    /\ ret' = Some(transform_item(call.rt_item, call.id_to_name_map,
                                  call.existing_item))
    /\ pc' = "return"
    /\ MainUnchanged

SpecTransform == InitTransform /\ [][CallTransform]_vars

-----------------------------------------------------------------------------
(* Properties of levenshtein_distance, checked under SpecLev *)

\* The standard Levenshtein distance by its defining recurrence: the least
\* number of single-character insertions, deletions and substitutions that
\* turn a into b.
RECURSIVE StdLev(_, _)
StdLev(a, b) ==
    IF a = <<>> THEN Len(b)
    ELSE IF b = <<>> THEN Len(a)
    ELSE Min3(StdLev(Tail(a), b) + 1,
              StdLev(a, Tail(b)) + 1,
              StdLev(Tail(a), Tail(b)) + (IF Head(a) = Head(b) THEN 0 ELSE 1))

LevReturned == pc = "return" /\ call.fn = "levenshtein_distance"

\* C9: levenshtein_distance(a, b) is the standard Levenshtein distance of a
\* and b; so the distance of a string to itself is 0, the distance is the
\* same in both directions, and the distance to the empty string is the
\* length of the other string.
C9_LevenshteinIsEditDistance ==
    LevReturned =>
        /\ ret[1] = StdLev(call.s1, call.s2)
        /\ (call.s1 = call.s2 => ret[1] = 0)
        /\ ret[1] = levenshtein_distance(call.s2, call.s1)
        /\ (call.s1 = <<>> => ret[1] = Len(call.s2))
        /\ (call.s2 = <<>> => ret[1] = Len(call.s1))

\* A call with the shorter string first, no string a prefix of the other,
\* and a distance that needs an insertion and a substitution.
C9_Witness ==
    /\ LevReturned
    /\ call.s1 = <<"a", "b">>
    /\ call.s2 = <<"b", "c", "a">>
    /\ ret[1] = 3

-----------------------------------------------------------------------------
(* Properties of find_existing_item, checked under SpecMatch *)

\* find_existing_item has been called and has returned.
MatchReturned == call.fn = "find_existing_item" /\ ret # None

MatchKey == normalize_name(call.name)

\* The distance of the looked-up key to the k-th key of the index.
MatchDistance(k) == levenshtein_distance(MatchKey, call.existing_by_name[k][1])

\* d <= max(3, 0.2 * len(key)), in tenths.
WithinThreshold(d, key) ==
    10 * d <= (IF 30 >= 2 * Len(key) THEN 30 ELSE 2 * Len(key))

\* The positions of the index whose key is within the threshold.
MatchCandidates == {k \in DOMAIN call.existing_by_name :
                        WithinThreshold(MatchDistance(k), MatchKey)}

\* C2: a name whose normalized key is empty matches nothing, whatever the
\* index holds.
C2_NoMatchOnEmptyKey ==
    (MatchReturned /\ MatchKey = <<>>) => ret[1] = None

\* C3: when the normalized key of the name is a key of the index, the entry
\* stored under that key is returned, whatever else the index holds.
C3_ExactMatchWins ==
    (MatchReturned /\ DictHas(call.existing_by_name, MatchKey)) =>
        /\ ret[1] = Some(DictGet(call.existing_by_name, MatchKey))
        /\ normalize_name(ret[1][1].name) = MatchKey

\* The exact key is in the index behind a fuzzy-eligible key one edit away,
\* and the exact entry is returned.
C3_Witness ==
    /\ MatchReturned
    /\ Len(call.existing_by_name) = 2
    /\ call.existing_by_name[2][1] = MatchKey
    /\ MatchDistance(1) = 1
    /\ ret[1] = Some(call.existing_by_name[2][2])
    /\ ret[1] # Some(call.existing_by_name[1][2])

-----------------------------------------------------------------------------
(* Properties of transform_item and auto_recommend, checked under
   SpecTransform *)

TransformReturned == pc = "return" /\ call.fn = "transform_item"

CuratorFields ==
    {"projectUses", "workshopUses", "keepForQuests", "questUses", "recommendation"}

\* C1: with an existing record, each curator-owned field the record has is
\* copied to the output as it is, whatever the raw record's type, rarity and
\* recyclesInto; the recommendation is never generated from the raw record
\* (a record with no recommendation gets the default "Either").
C1_CuratorFieldsPreserved ==
    (TransformReturned /\ call.existing_item # None) =>
        LET e == call.existing_item[1]
            out == ret[1]
        IN  /\ \A f \in CuratorFields \cap DOMAIN e : out[f] = e[f]
            /\ "recommendation" \notin DOMAIN e => out.recommendation = "Either"

\* A Valuable raw record, which the policy would recommend to sell, merged
\* with the curated record: "Keep" and the project uses are kept.
C1_Witness ==
    /\ TransformReturned
    /\ call.existing_item # None
    /\ call.existing_item[1].projectUses = <<"Workshop A">>
    /\ Get(call.rt_item, "type", "") = "Valuable"
    /\ Get(call.rt_item, "recyclesInto", <<>>) # <<>>
    /\ auto_recommend(call.rt_item) = "Sell"
    /\ ret[1].recommendation = "Keep"
    /\ ret[1].projectUses = <<"Workshop A">>

\* The auto-recommendation policy as an ordered decision list, rule 5 being
\* "has at least one positive-count recycle output".
DecisionList(item) ==
    LET t == Get(item, "type", "")
        r == Get(item, "rarity", "Common")
        m == Get(item, "recyclesInto", <<>>)
    IN  CASE t \in {"Key", "Quest Item"} -> "Keep"
          [] t = "Valuable" -> "Sell"
          [] r \in {"Rare", "Epic", "Legendary"} -> "Keep"
          [] t \in {"Quick Use", "Consumable"} -> "Keep"
          [] \E k \in DOMAIN m : m[k][2] > 0 -> "Recycle"
          [] t \in {"Weapon", "Armor", "Armor Plate", "Helmet Plate", "Attachment"}
               -> "Keep"
          [] OTHER -> "Either"

\* C6: the recommendation of a brand-new item is the first matching rule of
\* the decision list; a recyclesInto map with only zero counts does not make
\* it "Recycle".
C6_AutoRecommendDecisionList ==
    (TransformReturned /\ call.existing_item = None) =>
        ret[1].recommendation = DecisionList(call.rt_item)

\* The recyclesInto map of the call and the positions with a positive count.
RecyclesInto == Get(call.rt_item, "recyclesInto", <<>>)

PositiveIds == {k \in DOMAIN RecyclesInto : RecyclesInto[k][2] > 0}

DisplayName(k) == id_to_display_name(RecyclesInto[k][1], call.id_to_name_map)

\* C7 as stated: recycleOutputs is absent when no count is positive and is
\* never the empty mapping; otherwise it maps the display name of each id
\* with a positive count to that count and has no other entry.
C7_RecycleOutputsEachCount ==
    TransformReturned =>
        LET ro == ret[1].recycleOutputs
        IN  /\ ro # Some(<<>>)
            /\ PositiveIds = {} => ro = None
            /\ PositiveIds # {} =>
                  /\ ro # None
                  /\ \A k \in PositiveIds :
                        /\ DictHas(ro[1], DisplayName(k))
                        /\ DictGet(ro[1], DisplayName(k)) = RecyclesInto[k][2]
                  /\ DictKeys(ro[1]) = {DisplayName(k) : k \in PositiveIds}

\* C7 as amended: as above, except that a display name maps to the count of
\* the last id with a positive count that resolves to it.
C7_RecycleOutputsLastCount ==
    TransformReturned =>
        LET ro == ret[1].recycleOutputs
        IN  /\ ro # Some(<<>>)
            /\ PositiveIds = {} => ro = None
            /\ PositiveIds # {} =>
                  /\ ro # None
                  /\ DictKeys(ro[1]) = {DisplayName(k) : k \in PositiveIds}
                  /\ \A k \in DOMAIN ro[1] : \A m \in DOMAIN ro[1] :
                        ro[1][k][1] = ro[1][m][1] => k = m
                  /\ \A k \in PositiveIds :
                        (\A m \in PositiveIds :
                            DisplayName(m) = DisplayName(k) => m <= k)
                        => DictGet(ro[1], DisplayName(k)) = RecyclesInto[k][2]

\* Two ids with positive counts 1 and 2 that resolve to the same display
\* name, one by the reference table and one by the title-cased id: the one
\* entry of the output has the count of the second.
C7_Witness ==
    /\ TransformReturned
    /\ Len(RecyclesInto) = 2
    /\ RecyclesInto[1] = <<<<"x">>, 1>>
    /\ RecyclesInto[2] = <<<<"a", "_", "b">>, 2>>
    /\ DisplayName(1) = DisplayName(2)
    /\ ret[1].recycleOutputs = Some(<< <<<<"A", " ", "B">>, 2>> >>)

-----------------------------------------------------------------------------
(* Properties of the merge run, checked under Spec *)

\* The raw records with a non-empty English name among the first n.
NamedRaw(n) == {k \in 1..n : english_name(rt_items[k][2]) # <<>>}

\* The raw records the loop has been through.
Processed == IF pc \in {"phase2", "phase3"} THEN 0 ELSE idx - 1

\* C5: a merge-loop step on a raw record with no English name appends
\* nothing to the output and increments skipped alone; no output record has
\* an empty name.
C5_EmptyNameSkipped ==
    [][ /\ (pc = "phase4" /\ idx <= Len(rt_items)
               /\ english_name(rt_items[idx][2]) = <<>>)
           => /\ merged_items' = merged_items
              /\ stats'.skipped = stats.skipped + 1
              /\ stats'.added = stats.added
              /\ stats'.updated = stats.updated
        /\ \A k \in DOMAIN merged_items' : merged_items'[k].name # <<>>
      ]_vars

\* A finished run over a record with no "en" name, a record with no name at
\* all and a named record: two skipped, one record in the output.
C5_Witness ==
    /\ pc = "done"
    /\ Len(rt_items) = 3
    /\ "name" \notin DOMAIN rt_items[1][2]
    /\ "name" \in DOMAIN rt_items[3][2]
    /\ english_name(rt_items[3][2]) = <<>>
    /\ stats.skipped = 2
    /\ stats.added + stats.updated = 1
    /\ Len(merged_items) = 1

\* The names of the output in the order the loop appended them: those of the
\* named raw records, in iteration order.
RECURSIVE AppendedNames(_)
AppendedNames(n) ==
    IF n = 0 THEN <<>>
    ELSE IF english_name(rt_items[n][2]) = <<>> THEN AppendedNames(n - 1)
    ELSE Append(AppendedNames(n - 1), english_name(rt_items[n][2]))

MergedNames == [k \in DOMAIN merged_items |-> merged_items[k].name]

\* The elements of a sequence of names whose lower-cased form is low.
WithLower(names, low) == SelectSeq(names, LAMBDA n : Lower(n) = low)

\* C8: the merged catalog is in ascending order of lower-cased name, and
\* records with the same lower-cased name are in the order in which their
\* raw records were iterated.
C8_OutputSortedStable ==
    pc = "done" =>
        /\ \A k \in 1..(Len(merged_items) - 1) :
              ~StrLess(Lower(merged_items[k + 1].name), Lower(merged_items[k].name))
        /\ \A k \in DOMAIN merged_items :
              LET low == Lower(merged_items[k].name)
              IN  WithLower(MergedNames, low)
                      = WithLower(AppendedNames(Len(rt_items)), low)

\* Raw names Zed Core, Ab, ab in this order come out as Ab, ab, Zed Core:
\* Zed Core moves behind the lower-case name, and Ab stays before ab.
C8_Witness ==
    /\ pc = "done"
    /\ AppendedNames(Len(rt_items))
          = << <<"Z","e","d"," ","C","o","r","e">>, <<"A","b">>, <<"a","b">> >>
    /\ MergedNames
          = << <<"A","b">>, <<"a","b">>, <<"Z","e","d"," ","C","o","r","e">> >>

\* The output record the loop makes of the k-th raw record.
MergedOf(k) ==
    LET rt_item == rt_items[k][2]
    IN  transform_item(rt_item, id_to_name_map,
                       find_existing_item(english_name(rt_item), existing_by_name))

\* The output records of the named raw records among the first n, in
\* iteration order.
RECURSIVE Appended(_)
Appended(n) ==
    IF n = 0 THEN <<>>
    ELSE IF english_name(rt_items[n][2]) = <<>> THEN Appended(n - 1)
    ELSE Append(Appended(n - 1), MergedOf(n))

\* The existing records some named raw record among the first n matched.
Matched(n) ==
    {e \in Range(existing_items) :
        \E k \in NamedRaw(n) :
            find_existing_item(english_name(rt_items[k][2]), existing_by_name)
                = Some(e)}

\* C10: after any number of loop iterations updated + added + skipped is the
\* number of raw records processed and the output has updated + added
\* records, one for each named raw record processed (in the loop the output
\* is the sequence of their transforms, at the end a permutation of it); at
\* the end the total is the number of named raw records, and an existing
\* record that no raw record matched or is named like is not in the output.
C10_MergeAccounting ==
    pc \in {"phase4", "done"} =>
        /\ stats.updated + stats.added + stats.skipped = Processed
        /\ stats.skipped = Processed - Cardinality(NamedRaw(Processed))
        /\ Len(merged_items) = stats.updated + stats.added
        /\ Len(merged_items) = Cardinality(NamedRaw(Processed))
        /\ LET appended == Appended(Processed)
           IN  IF pc = "phase4" THEN merged_items = appended
               ELSE \A v \in Range(appended) \cup Range(merged_items) :
                       Cardinality({j \in DOMAIN merged_items : merged_items[j] = v})
                           = Cardinality({j \in DOMAIN appended : appended[j] = v})
        /\ pc = "done" =>
              /\ Processed = Len(rt_items)
              /\ \A e \in Range(existing_items) \ Matched(Processed) :
                    (\A k \in NamedRaw(Processed) :
                        english_name(rt_items[k][2]) # e.name)
                    => \A m \in DOMAIN merged_items : merged_items[m].name # e.name

\* A finished run with one record updated, one added and one skipped, and an
\* existing record (Mango) that no raw record matched.
C10_Witness ==
    /\ pc = "done"
    /\ stats = [updated |-> 1, added |-> 1, skipped |-> 1]
    /\ Len(merged_items) = 2
    /\ \E e \in Range(existing_items) \ Matched(Processed) :
          /\ e.name = <<"M", "a", "n", "g", "o">>
          /\ \A m \in DOMAIN merged_items : merged_items[m].name # e.name

====
